---- MODULE Spec2Model ----
(***************************************************************************)
(* Model of the ProgressBlock widget (src/progress.js): a circular         *)
(* progress gauge drawn on a canvas, with a requestAnimationFrame loop.    *)
(*                                                                         *)
(* Units: rotation is counted in hundredths of a radian (0.02 rad = 2).    *)
(* A frame handle is a positive integer, as requestAnimationFrame returns  *)
(* them; null is modelled by NoFrame = 0 (both are falsy in the code).     *)
(***************************************************************************)
EXTENDS Integers, Sequences, FiniteSets, TLC

\* ---- bounds of the model ----
MaxHandle == 3          \* requestAnimationFrame is called at most this often
MaxRotation == 5        \* the animation closure runs only below this angle

\* ---- program constants ----
MinValue == 0
MaxValue == 100
MaxSize == 200
RotStep == 2
NoFrame == 0

\* ---- inputs ----
ValueInputs == {MinValue - 5, 50, MaxValue + 50}
InitValues == {MinValue, MaxValue + 50}
InitRotations == {0, 1}
InitFrames == {NoFrame, 1}
Viewports == {101, 1000}

\* texts typed into the #value input, as sequences of characters
Texts == { <<>>, <<"5", "0">>, <<"1", "5", "0">>, <<"5", "a", "0">> }

Handles == 1..(MaxHandle + 1)
Blank == [value |-> -1, rotation |-> -1]

VARIABLES
    value,            \* settings.value
    animate,          \* settings.animate
    hidden,           \* settings.hidden
    rotation,         \* settings.rotation
    animationFrame,   \* settings.animationFrame
    ctx,              \* settings.ctx: "2d" or "null"
    width, height,    \* settings.canvas.width / height
    visibility,       \* settings.canvas.style.visibility
    attached,         \* settings.canvas.parentNode is not null
    resizeSubscribed, \* handleResize is registered on window
    innerWidth,       \* window.innerWidth
    pending,          \* frame requests the browser has not run or cancelled
    nextHandle,       \* the handle the next requestAnimationFrame returns
    shown,            \* what the canvas bitmap shows
    inputValue,       \* value of the #value input element
    drawCalls,        \* the ctx calls the last operation's draw() issued
    lastOp            \* the last operation and what it did

vars == <<value, animate, hidden, rotation, animationFrame, ctx, width, height,
          visibility, attached, resizeSubscribed, innerWidth, pending,
          nextHandle, shown, inputValue, drawCalls, lastOp>>

Min(a, b) == IF a < b THEN a ELSE b
Max(a, b) == IF a > b THEN a ELSE b

\* Math.min(100, Math.max(0, value))
ClampNoUpper(v) == Max(MinValue, v)
Clamp(v) == Min(MaxValue, Max(MinValue, v))

\* Number(x) of a text that is not numeric, and what arithmetic on it gives
NaN == -1000

\* Math.min(100, Math.max(0, n)) on a number that may be NaN
ClampNumber(n) == IF n = NaN THEN NaN ELSE Clamp(n)

Digits == {"0", "1", "2", "3", "4", "5", "6", "7", "8", "9"}
DigitValue(c) ==
    CASE c = "0" -> 0 [] c = "1" -> 1 [] c = "2" -> 2 [] c = "3" -> 3
      [] c = "4" -> 4 [] c = "5" -> 5 [] c = "6" -> 6 [] c = "7" -> 7
      [] c = "8" -> 8 [] c = "9" -> 9
IsDigit(c) == c \in Digits

\* text.replace(/[^0-9]/g, '')
FilterDigitsNone(t) == t
FilterDigits(t) == SelectSeq(t, IsDigit)

\* Number(t) of a text of digits; Number('') is 0
RECURSIVE ParseDigits(_)
ParseDigits(t) ==
    IF t = <<>> THEN 0
    ELSE ParseDigits(SubSeq(t, 1, Len(t) - 1)) * 10 + DigitValue(t[Len(t)])

\* Number(t) of a text over digits, letters and the minus sign
ToNumber(t) ==
    IF \A i \in 1..Len(t) : IsDigit(t[i]) THEN ParseDigits(t)
    ELSE IF Len(t) > 1 /\ t[1] = "-"
            /\ \A i \in 2..Len(t) : IsDigit(t[i])
         THEN 0 - ParseDigits(SubSeq(t, 2, Len(t)))
    ELSE NaN

\* Math.min(window.innerWidth * 0.8, 200), stored in an integer attribute
\* (canvas.width and canvas.height keep the integer part of a number)
CanvasSizeNoCap(w) == (w * 8) \div 10
CanvasSize(w) == Min((w * 8) \div 10, MaxSize)

\* draw(): returns early when hidden, otherwise dereferences settings.ctx
DrawRaises(hid, c) == ~hid /\ c = "null"
DrawShown(hid, c, val, rot, cur) ==
    IF hid \/ c = "null" THEN cur ELSE [value |-> val, rotation |-> rot]

\* An angle is a sum of hundredths of a full turn and hundredths of a radian.
Angle(t, r) == [turn |-> t, rad |-> r]

\* draw(rotation): nothing when hidden; a TypeError before the first call
\* on a null ctx; else clearRect, the full ring from 0 to 2 pi, and the arc
\* from -pi/2 + rotation to that plus (value / 100) * 2 pi
DrawCallsIgnoreHidden(hid, c, val, rot) ==
    IF c = "null" THEN <<>>
    ELSE << [call |-> "clearRect"],
            [call |-> "arc", style |-> "#E5E7EB",
             from |-> Angle(0, 0), to |-> Angle(100, 0)],
            [call |-> "arc", style |-> "blue",
             from |-> Angle(-25, rot), to |-> Angle(-25 + val, rot)] >>
DrawCallsFromTop(hid, c, val, rot) ==
    IF hid \/ c = "null" THEN <<>>
    ELSE << [call |-> "clearRect"],
            [call |-> "arc", style |-> "#E5E7EB",
             from |-> Angle(0, 0), to |-> Angle(100, 0)],
            [call |-> "arc", style |-> "blue",
             from |-> Angle(-25, 0), to |-> Angle(-25 + val, 0)] >>
DrawCalls(hid, c, val, rot) ==
    IF hid \/ c = "null" THEN <<>>
    ELSE << [call |-> "clearRect"],
            [call |-> "arc", style |-> "#E5E7EB",
             from |-> Angle(0, 0), to |-> Angle(100, 0)],
            [call |-> "arc", style |-> "blue",
             from |-> Angle(-25, rot), to |-> Angle(-25 + val, rot)] >>

\* this.settings.rotation += 0.02
NextRotationDouble(r) == r + RotStep + RotStep
NextRotation(r) == r + RotStep

\* requestAnimationFrame(animate): one more pending request
RequestFrame(pend, h) == pend \cup {h}

\* if (animationFrame) cancelAnimationFrame(animationFrame)
CancelFrameNone(frame, pend) == pend
CancelFrame(frame, pend) == IF frame # NoFrame THEN pend \ {frame} ELSE pend

Op(n, a, f, h, live, r, rs, c, s) ==
    [name |-> n, arg |-> a, flag |-> f, handle |-> h, live |-> live,
     raised |-> r, renders |-> rs, cancelled |-> c, scheduled |-> s]

Live == ctx = "2d"

\* The defaults are built before the options are merged:
\* document.getElementById(canvasId).getContext('2d') raises a TypeError
\* when the id resolves to no element, whatever the options inject.
ConstructorRaisesLazy(idResolves, injected) == ~idResolves /\ ~injected
ConstructorRaises(idResolves, injected) == ~idResolves

\* constructor(canvasId, options): defaults overlaid by options, then
\* setCanvasSize() and the resize subscription
InitConstructed(injected, resolved) ==
    /\ value \in InitValues
    /\ animate \in BOOLEAN
    /\ hidden \in BOOLEAN
    /\ rotation \in InitRotations
    /\ animationFrame \in InitFrames
    /\ ctx = "2d"
    /\ innerWidth \in Viewports
    /\ width = CanvasSize(innerWidth)
    /\ height = CanvasSize(innerWidth)
    /\ visibility = "default"
    /\ attached = TRUE
    /\ resizeSubscribed = TRUE
    /\ pending = {}
    /\ nextHandle = 1
    /\ shown = DrawShown(hidden, "2d", value, 0, Blank)
    /\ inputValue = 0
    /\ drawCalls = DrawCalls(hidden, "2d", value, 0)
    /\ lastOp = Op("constructor", resolved, injected, NoFrame, TRUE, FALSE,
                   <<0>>, 0, 0)

\* the constructor raised: no object, no canvas size, no subscription
InitFailed(injected, resolved) ==
    /\ value = MinValue
    /\ animate = FALSE
    /\ hidden = FALSE
    /\ rotation = 0
    /\ animationFrame = NoFrame
    /\ ctx = "null"
    /\ innerWidth \in Viewports
    /\ width = 0
    /\ height = 0
    /\ visibility = "default"
    /\ attached = FALSE
    /\ resizeSubscribed = FALSE
    /\ pending = {}
    /\ nextHandle = 1
    /\ shown = Blank
    /\ inputValue = 0
    /\ drawCalls = <<>>
    /\ lastOp = Op("constructor", resolved, injected, NoFrame, FALSE, TRUE,
                   <<>>, 0, 0)

\* new ProgressBlock(canvasId, options): lastOp.arg is 1 when canvasId
\* resolves to an element and 0 when not, lastOp.flag tells whether the
\* options inject canvas and ctx
Init ==
    \E idResolves \in BOOLEAN, injected \in BOOLEAN :
        IF ConstructorRaises(idResolves, injected)
           THEN InitFailed(injected, IF idResolves THEN 1 ELSE 0)
           ELSE InitConstructed(injected, IF idResolves THEN 1 ELSE 0)

\* the methods need the object the constructor returns
Constructed == ~(lastOp.name = "constructor" /\ lastOp.raised)

\* setCanvasSize(): assigning the size resets the bitmap, then draw()
setCanvasSizeTo(w) ==
    /\ width' = CanvasSize(w)
    /\ height' = CanvasSize(w)
    /\ shown' = DrawShown(hidden, ctx, value, 0, Blank)
    /\ drawCalls' = DrawCalls(hidden, ctx, value, 0)

setCanvasSize ==
    /\ setCanvasSizeTo(innerWidth)
    /\ lastOp' = Op("setCanvasSize", innerWidth, FALSE, NoFrame, Live,
                    DrawRaises(hidden, ctx), <<0>>, 0, 0)
    /\ UNCHANGED <<value, animate, hidden, rotation, animationFrame, ctx,
                   visibility, attached, resizeSubscribed, innerWidth,
                   pending, nextHandle, inputValue>>

\* the window's resize event; handleResize runs while it is registered
Resize(w) ==
    /\ innerWidth' = w
    /\ IF resizeSubscribed
          THEN /\ setCanvasSizeTo(w)
               /\ lastOp' = Op("resize", w, TRUE, NoFrame, Live,
                               DrawRaises(hidden, ctx), <<0>>, 0, 0)
          ELSE /\ UNCHANGED <<width, height, shown>>
               /\ drawCalls' = <<>>
               /\ lastOp' = Op("resize", w, FALSE, NoFrame, Live,
                               FALSE, <<>>, 0, 0)
    /\ UNCHANGED <<value, animate, hidden, rotation, animationFrame, ctx,
                   visibility, attached, resizeSubscribed,
                   pending, nextHandle, inputValue>>

setValueDrawsRotated(v) ==
    /\ value' = Clamp(v)
    /\ shown' = DrawShown(hidden, ctx, value', rotation, shown)
    /\ drawCalls' = DrawCalls(hidden, ctx, value', rotation)
    /\ lastOp' = Op("setValue", v, FALSE, NoFrame, Live,
                    DrawRaises(hidden, ctx), <<rotation>>, 0, 0)
    /\ UNCHANGED <<animate, hidden, rotation, animationFrame, ctx, width,
                   height, visibility, attached, resizeSubscribed,
                   innerWidth, pending, nextHandle, inputValue>>

setValue(v) ==
    /\ value' = Clamp(v)
    /\ shown' = DrawShown(hidden, ctx, value', 0, shown)
    /\ drawCalls' = DrawCalls(hidden, ctx, value', 0)
    /\ lastOp' = Op("setValue", v, FALSE, NoFrame, Live,
                    DrawRaises(hidden, ctx), <<0>>, 0, 0)
    /\ UNCHANGED <<animate, hidden, rotation, animationFrame, ctx, width,
                   height, visibility, attached, resizeSubscribed,
                   innerWidth, pending, nextHandle, inputValue>>

setHiddenStops(flag) ==
    /\ hidden' = flag
    /\ visibility' = IF flag THEN "hidden" ELSE "visible"
    /\ drawCalls' = <<>>
    /\ pending' = IF flag THEN CancelFrame(animationFrame, pending)
                           ELSE pending
    /\ lastOp' = Op("setHidden", 0, flag, NoFrame, Live, FALSE, <<>>, 0, 0)
    /\ UNCHANGED <<value, animate, rotation, animationFrame, ctx, width,
                   height, attached, resizeSubscribed, innerWidth,
                   nextHandle, shown, inputValue>>

setHidden(flag) ==
    /\ hidden' = flag
    /\ visibility' = IF flag THEN "hidden" ELSE "visible"
    /\ drawCalls' = <<>>
    /\ lastOp' = Op("setHidden", 0, flag, NoFrame, Live, FALSE, <<>>, 0, 0)
    /\ UNCHANGED <<value, animate, rotation, animationFrame, ctx, width,
                   height, attached, resizeSubscribed, innerWidth, pending,
                   nextHandle, shown, inputValue>>

\* the closure `animate` of startAnimation(), run on the pending set pend
animateClosureStopsHidden(pend) ==
    /\ rotation' = NextRotation(rotation)
    /\ shown' = DrawShown(hidden, ctx, value, rotation', shown)
    /\ drawCalls' = DrawCalls(hidden, ctx, value, rotation')
    /\ IF hidden \/ DrawRaises(hidden, ctx)
          THEN /\ pending' = pend
               /\ UNCHANGED <<animationFrame, nextHandle>>
          ELSE /\ animationFrame' = nextHandle
               /\ pending' = RequestFrame(pend, nextHandle)
               /\ nextHandle' = nextHandle + 1
animateClosure(pend) ==
    /\ rotation' = NextRotation(rotation)
    /\ shown' = DrawShown(hidden, ctx, value, rotation', shown)
    /\ drawCalls' = DrawCalls(hidden, ctx, value, rotation')
    /\ IF DrawRaises(hidden, ctx)
          THEN /\ pending' = pend
               /\ UNCHANGED <<animationFrame, nextHandle>>
          ELSE /\ animationFrame' = nextHandle
               /\ pending' = RequestFrame(pend, nextHandle)
               /\ nextHandle' = nextHandle + 1

CanAnimate == nextHandle <= MaxHandle /\ rotation < MaxRotation

\* one run of the closure: by startAnimation() itself (h = NoFrame) or by
\* the browser for the frame request h
animateFrame(op, flag, h) ==
    /\ CanAnimate
    /\ animateClosure(pending \ {h})
    /\ lastOp' = Op(op, 0, flag, h, Live, DrawRaises(hidden, ctx),
                    <<rotation'>>, 0,
                    IF DrawRaises(hidden, ctx) THEN 0 ELSE 1)

startAnimation == animateFrame("setAnimate", TRUE, NoFrame)

stopAnimation(op) ==
    /\ pending' = CancelFrame(animationFrame, pending)
    /\ rotation' = 0
    /\ shown' = DrawShown(hidden, ctx, value, 0, shown)
    /\ drawCalls' = DrawCalls(hidden, ctx, value, 0)
    /\ lastOp' = Op(op, 0, FALSE, NoFrame, Live, DrawRaises(hidden, ctx),
                    <<0>>, Cardinality(pending) - Cardinality(pending'), 0)
    /\ UNCHANGED <<animationFrame, nextHandle>>

setAnimate(flag) ==
    /\ animate' = flag
    /\ IF flag THEN startAnimation
               ELSE stopAnimation("setAnimate")
    /\ UNCHANGED <<value, hidden, ctx, width, height, visibility, attached,
                   resizeSubscribed, innerWidth, inputValue>>

\* the browser runs the frame request h
Tick ==
    \E h \in pending :
        /\ animateFrame("tick", FALSE, h)
        /\ UNCHANGED <<value, animate, hidden, ctx, width, height, visibility,
                       attached, resizeSubscribed, innerWidth, inputValue>>

incrementProgressLe(v) ==
    /\ IF value # NaN /\ value <= MaxValue
          THEN /\ value' = Clamp(v)
               /\ shown' = DrawShown(hidden, ctx, value', 0, shown)
               /\ drawCalls' = DrawCalls(hidden, ctx, value', 0)
               /\ inputValue' = IF DrawRaises(hidden, ctx) THEN inputValue
                                                           ELSE value'
               /\ lastOp' = Op("incrementProgress", v, TRUE, NoFrame, Live,
                               DrawRaises(hidden, ctx), <<0>>, 0, 0)
          ELSE /\ UNCHANGED <<value, shown, inputValue>>
               /\ drawCalls' = <<>>
               /\ lastOp' = Op("incrementProgress", v, FALSE, NoFrame, Live,
                               FALSE, <<>>, 0, 0)
    /\ UNCHANGED <<animate, hidden, rotation, animationFrame, ctx, width,
                   height, visibility, attached, resizeSubscribed,
                   innerWidth, pending, nextHandle>>

incrementProgress(v) ==
    /\ IF value # NaN /\ value < MaxValue
          THEN /\ value' = Clamp(v)
               /\ shown' = DrawShown(hidden, ctx, value', 0, shown)
               /\ drawCalls' = DrawCalls(hidden, ctx, value', 0)
               /\ inputValue' = IF DrawRaises(hidden, ctx) THEN inputValue
                                                           ELSE value'
               /\ lastOp' = Op("incrementProgress", v, TRUE, NoFrame, Live,
                               DrawRaises(hidden, ctx), <<0>>, 0, 0)
          ELSE /\ UNCHANGED <<value, shown, inputValue>>
               /\ drawCalls' = <<>>
               /\ lastOp' = Op("incrementProgress", v, FALSE, NoFrame, Live,
                               FALSE, <<>>, 0, 0)
    /\ UNCHANGED <<animate, hidden, rotation, animationFrame, ctx, width,
                   height, visibility, attached, resizeSubscribed,
                   innerWidth, pending, nextHandle>>

\* The page script comes in two versions, src/app.js and
\* src/unnamed/part_000; a page loads one of them.

\* src/app.js: the two 'input' listeners of #value, run in order on the
\* typed text t.  The first strips the non-digits, clamps, writes the number
\* back to the element and calls setValue; the second reads the element
\* again, clamps and calls setValue.
inputApp(t) ==
    LET first == ClampNumber(ToNumber(FilterDigits(t)))
        second == ClampNumber(first)
    IN  /\ inputValue' = first
        /\ value' = ClampNumber(second)
        /\ shown' = DrawShown(hidden, ctx, value', 0, shown)
        /\ drawCalls' = DrawCalls(hidden, ctx, value', 0)
        /\ lastOp' = Op("input(app.js)", t, FALSE, NoFrame, Live,
                        DrawRaises(hidden, ctx), <<0, 0>>, 0, 0)
        /\ UNCHANGED <<animate, hidden, rotation, animationFrame, ctx,
                       width, height, visibility, attached, resizeSubscribed,
                       innerWidth, pending, nextHandle>>

\* src/unnamed/part_000: the 'input' listener of #value on the typed text t:
\* Number(e.target.value), clamped, to setValue.  inputValue holds the
\* element's value read as a number.
inputPart(t) ==
    LET n == ClampNumber(ToNumber(t))
    IN  /\ inputValue' = ToNumber(t)
        /\ value' = ClampNumber(n)
        /\ shown' = DrawShown(hidden, ctx, value', 0, shown)
        /\ drawCalls' = DrawCalls(hidden, ctx, value', 0)
        /\ lastOp' = Op("input(part_000)", t, FALSE, NoFrame, Live,
                        DrawRaises(hidden, ctx), <<0>>, 0, 0)
        /\ UNCHANGED <<animate, hidden, rotation, animationFrame, ctx,
                       width, height, visibility, attached, resizeSubscribed,
                       innerWidth, pending, nextHandle>>

\* src/unnamed/part_000: the 'change' listener of #value clamps the
\* element's own value
changePart ==
    /\ inputValue' = ClampNumber(inputValue)
    /\ drawCalls' = <<>>
    /\ lastOp' = Op("change(part_000)", 0, FALSE, NoFrame, Live, FALSE,
                    <<>>, 0, 0)
    /\ UNCHANGED <<value, animate, hidden, rotation, animationFrame, ctx,
                   width, height, visibility, attached, resizeSubscribed,
                   innerWidth, pending, nextHandle, shown>>

\* destroy(): stopAnimation(), removeEventListener, ctx.clearRect,
\* removeChild, this.canvas = null, settings.ctx = null.  A TypeError on the
\* null ctx (in draw() when visible, else at clearRect) ends it early.
destroy ==
    /\ pending' = CancelFrame(animationFrame, pending)
    /\ rotation' = 0
    /\ drawCalls' = DrawCalls(hidden, ctx, value, 0)
    /\ lastOp' = Op("destroy", 0, FALSE, NoFrame, Live, ctx = "null",
                    <<0>>, Cardinality(pending) - Cardinality(pending'), 0)
    /\ IF DrawRaises(hidden, ctx)
          THEN UNCHANGED <<resizeSubscribed, shown, attached, ctx>>
          ELSE /\ resizeSubscribed' = FALSE
               /\ IF ctx = "null"
                     THEN UNCHANGED <<shown, attached, ctx>>
                     ELSE /\ shown' = Blank
                          /\ attached' = FALSE
                          /\ ctx' = "null"
    /\ UNCHANGED <<value, animate, hidden, animationFrame, width, height,
                   visibility, innerWidth, nextHandle, inputValue>>

Next ==
    \/ Constructed /\ \E v \in ValueInputs : setValue(v)
    \/ Constructed /\ \E v \in ValueInputs : incrementProgress(v)
    \/ Constructed /\ \E flag \in BOOLEAN : setAnimate(flag)
    \/ Constructed /\ \E flag \in BOOLEAN : setHidden(flag)
    \/ Constructed /\ \E w \in Viewports : Resize(w)
    \/ Constructed /\ setCanvasSize
    \/ Constructed /\ Tick
    \/ Constructed /\ destroy
    \/ Constructed /\ \E t \in Texts : inputApp(t)
    \/ Constructed /\ \E t \in Texts : inputPart(t)
    \/ Constructed /\ changePart

Spec == Init /\ [][Next]_vars

\* the widget's own methods and events, without the page scripts
LiveNext ==
    \/ Constructed /\ \E v \in ValueInputs : setValue(v)
    \/ Constructed /\ \E flag \in BOOLEAN : setAnimate(flag)
    \/ Constructed /\ \E flag \in BOOLEAN : setHidden(flag)
    \/ Constructed /\ \E w \in Viewports : Resize(w)
    \/ Constructed /\ Tick
    \/ Constructed /\ destroy

\* frames the browser has accepted are eventually run
LiveSpec == Init /\ [][LiveNext]_vars /\ WF_vars(Tick)

Spinning == animate /\ pending # {}
Idle == pending = {} /\ rotation = 0
StateButLastOp == <<value, animate, hidden, rotation, animationFrame, ctx,
                    width, height, visibility, attached, resizeSubscribed,
                    innerWidth, pending, nextHandle, shown, inputValue>>

\* C1: after setValue(v) the stored value is v clamped to [0, 100] (0 below
\* the range, 100 above it, v inside it), and the call on a live widget does
\* not raise.
C1_SetValueClamps ==
    lastOp.name = "setValue" =>
        /\ value = (IF lastOp.arg < 0 THEN 0
                    ELSE IF lastOp.arg > 100 THEN 100 ELSE lastOp.arg)
        /\ (lastOp.live => ~lastOp.raised)
C1_Witness ==
    lastOp.name = "setValue" /\ lastOp.arg > 100 /\ value = 100 /\ lastOp.live

\* C2: in every reachable state, construction with any overrides included,
\* the stored value lies in [0, 100].
C2_ValueInRange == value >= 0 /\ value <= 100

\* C3: in every reachable state at most one animation frame is scheduled.
C3_AtMostOneFrame == Cardinality(pending) <= 1

\* C4: setAnimate(false) on a live widget leaves it Idle (no frame scheduled,
\* rotation 0), and an Idle widget whose animate flag stays false stays Idle.
C4_StopLeavesIdle ==
    [][/\ (lastOp'.name = "setAnimate" /\ ~lastOp'.flag /\ Live) => Idle'
       /\ (Idle /\ ~animate /\ ~animate') => (Idle' /\ lastOp'.name # "tick")
      ]_vars

\* C5: destroy() on an already destroyed widget does not raise and changes
\* no state.
C5_SecondDestroyNoOp ==
    [][(lastOp'.name = "destroy" /\ ~Live) =>
           (~lastOp'.raised /\ UNCHANGED StateButLastOp)]_vars

\* C6: destroy() on a live widget leaves no resize subscription, a detached
\* surface and no pending frame, and no tick and no resize callback runs on
\* a destroyed widget.
C6_DestroyReleasesAll ==
    /\ (lastOp.name = "destroy" /\ lastOp.live) =>
           (~resizeSubscribed /\ ~attached /\ pending = {})
    /\ lastOp.name = "tick" => lastOp.live
    /\ (lastOp.name = "resize" /\ lastOp.flag) => lastOp.live

\* C7: setAnimate(false) on a Spinning widget cancels exactly one scheduled
\* tick, sets rotation to 0 and renders exactly once, with offset 0.
C7_StopFromSpinning ==
    [][(lastOp'.name = "setAnimate" /\ ~lastOp'.flag /\ Live /\ Spinning) =>
           /\ lastOp'.cancelled = 1
           /\ Cardinality(pending') = Cardinality(pending) - 1
           /\ rotation' = 0
           /\ lastOp'.renders = <<0>>
           /\ ~lastOp'.raised
      ]_vars
C7_Witness ==
    /\ lastOp.name = "setAnimate" /\ ~lastOp.flag /\ lastOp.live
    /\ lastOp.cancelled = 1 /\ rotation = 0 /\ ~animate

\* C8: setAnimate(true) takes a live Idle widget to Spinning, and every tick
\* on a live widget adds exactly one step (0.02 rad) to rotation, renders
\* once with the new rotation as offset and schedules exactly one next tick.
C8_TickStepsAndReschedules ==
    [][/\ (lastOp'.name = "setAnimate" /\ lastOp'.flag /\ Live /\ Idle) =>
              (Spinning' /\ Cardinality(pending') = 1 /\ rotation' = 2)
       /\ (lastOp'.name = "tick" /\ Live) =>
              /\ rotation' = rotation + 2
              /\ lastOp'.renders = <<rotation'>>
              /\ lastOp'.scheduled = 1
              /\ pending' = (pending \ {lastOp'.handle}) \cup {animationFrame'}
              /\ animationFrame' \notin pending
              /\ ~lastOp'.raised
      ]_vars
C8_Witness ==
    /\ lastOp.name = "tick" /\ lastOp.live /\ lastOp.scheduled = 1
    /\ animate /\ rotation = 4 /\ Cardinality(pending) = 1

\* C9: on a live widget a tick is eventually followed by another tick,
\* unless setAnimate(false) or destroy() is called (or the model's bounds
\* on handles and rotation are reached); frames are scheduled fairly.
C9_LoopNeverStops ==
    \A h \in 1..MaxHandle :
        (lastOp.name = "tick" /\ lastOp.handle = h /\ Live /\ CanAnimate)
            ~> \/ lastOp.name = "tick" /\ lastOp.handle # h
               \/ lastOp.name = "setAnimate" /\ ~lastOp.flag
               \/ lastOp.name = "destroy"
               \/ ~CanAnimate
C9_Witness ==
    /\ lastOp.name = "tick" /\ lastOp.handle = 2 /\ lastOp.live
    /\ hidden /\ pending # {}

\* C10: in every reachable state the animate flag is true exactly when a
\* tick is scheduled.
C10_AnimateIffScheduled == animate <=> pending # {}

\* C11: in every reachable state animationFrame is null or the handle of a
\* frame request that is still pending.
C11_HandleIsPending == animationFrame = NoFrame \/ animationFrame \in pending

\* C12: a render while hidden, whichever operation triggers it, issues no
\* ctx call and does not raise (the only raise of an operation that renders
\* while hidden is destroy()'s own clearRect on a destroyed widget).
C12_HiddenRenderDrawsNothing ==
    [][(hidden /\ lastOp'.renders # <<>>) =>
           /\ drawCalls' = <<>>
           /\ lastOp'.raised => (lastOp'.name = "destroy" /\ ~Live)
      ]_vars
C12_Witness ==
    /\ hidden /\ lastOp.name = "tick" /\ lastOp.renders = <<rotation>>
    /\ drawCalls = <<>> /\ lastOp.scheduled = 1 /\ ~lastOp.raised

\* C15: a render on a live widget that is not hidden clears the region,
\* draws the ring over a full turn, and draws the arc from -pi/2 + offset
\* over value / 100 of a full turn, with the value stored at render time.
C15_RenderDrawsGauge ==
    [][(~hidden /\ Live /\ lastOp'.renders # <<>>) =>
           /\ Len(drawCalls') = 3
           /\ drawCalls'[1].call = "clearRect"
           /\ drawCalls'[2].call = "arc"
           /\ drawCalls'[2].to.turn - drawCalls'[2].from.turn = 100
           /\ drawCalls'[2].to.rad = drawCalls'[2].from.rad
           /\ drawCalls'[3].call = "arc"
           /\ drawCalls'[3].from = [turn |-> -25, rad |-> lastOp'.renders[1]]
           /\ drawCalls'[3].to.turn - drawCalls'[3].from.turn = value'
           /\ drawCalls'[3].to.rad = drawCalls'[3].from.rad
      ]_vars
C15_Witness ==
    /\ lastOp.name = "tick" /\ ~hidden /\ Live /\ value = 100 /\ rotation = 4
    /\ Len(drawCalls) = 3 /\ drawCalls[3].from = [turn |-> -25, rad |-> 4]
    /\ drawCalls[3].to = [turn |-> 75, rad |-> 4]

Sized ==
    \/ lastOp.name = "constructor" /\ ~lastOp.raised
    \/ lastOp.name = "setCanvasSize"
    \/ lastOp.name = "resize" /\ lastOp.flag

\* C13 as stated: construction and every resize set width and height to
\* exactly min(0.8 x viewportWidth, 200) and then render once.
C13_EdgeIsExact ==
    Sized => /\ 10 * width = Min(8 * innerWidth, 2000)
             /\ 10 * height = Min(8 * innerWidth, 2000)
             /\ lastOp.renders = <<0>>

\* C13 amended: construction and every resize set width and height to the
\* integer part of min(0.8 x viewportWidth, 200) and then render once; the
\* surface is square in every state.
C13_EdgeIsFloor ==
    /\ width = height
    /\ Sized => /\ 10 * width <= Min(8 * innerWidth, 2000)
                /\ Min(8 * innerWidth, 2000) < 10 * (width + 1)
                /\ lastOp.renders = <<0>>
C13_Witness ==
    /\ lastOp.name = "resize" /\ lastOp.flag /\ innerWidth = 101
    /\ width = 80 /\ height = 80 /\ lastOp.renders = <<0>>

\* C14: construction with an id that resolves to no element raises, also
\* when the options inject canvas and ctx, and leaves no resize subscription.
C14_UnresolvedIdFails ==
    (lastOp.name = "constructor" /\ lastOp.arg = 0) =>
        (lastOp.raised /\ ~resizeSubscribed /\ ~Live)
C14_Witness ==
    /\ lastOp.name = "constructor" /\ lastOp.arg = 0 /\ lastOp.flag
    /\ lastOp.raised /\ ~resizeSubscribed

\* C16: setValue(v) renders once with rotation offset 0, also while the
\* widget is Spinning, and leaves rotation, animate, hidden, the pending
\* frames and animationFrame unchanged.
C16_SetValueFrame ==
    [][lastOp'.name = "setValue" =>
           /\ lastOp'.renders = <<0>>
           /\ (~hidden /\ Live) => shown'.rotation = 0
           /\ UNCHANGED <<rotation, animate, hidden, pending, animationFrame>>
      ]_vars
C16_Witness ==
    /\ lastOp.name = "setValue" /\ Spinning /\ Live /\ ~hidden
    /\ rotation = 4 /\ shown = [value |-> value, rotation |-> 0]

\* C17: setHidden(flag) stores the flag, sets the canvas visibility to
\* hidden or visible, keeps the canvas attached, and leaves value, animate,
\* rotation and the pending frames unchanged.
C17_SetHiddenFrame ==
    [][lastOp'.name = "setHidden" =>
           /\ hidden' = lastOp'.flag
           /\ visibility' = (IF hidden' THEN "hidden" ELSE "visible")
           /\ UNCHANGED <<attached, value, animate, rotation, pending>>
      ]_vars
C17_Witness ==
    /\ lastOp.name = "setHidden" /\ lastOp.flag /\ hidden /\ attached
    /\ visibility = "hidden" /\ Spinning /\ Live /\ rotation > 0

\* C18: whenever the widget is neither hidden nor destroyed, the drawing on
\* the surface shows the stored value.
C18_ShownIsStored == (Constructed /\ ~hidden /\ Live) => shown.value = value

\* C20: incrementProgress(v) stores v clamped to [0, 100] and renders once
\* when the stored value is below 100; at 100 it changes no state and does
\* not render.
C20_IncrementStopsAtFull ==
    [][lastOp'.name = "incrementProgress" =>
           /\ (value >= 0 /\ value < 100) =>
                  /\ value' = (IF lastOp'.arg < 0 THEN 0
                               ELSE IF lastOp'.arg > 100 THEN 100
                               ELSE lastOp'.arg)
                  /\ lastOp'.renders = <<0>>
           /\ value = 100 =>
                  /\ UNCHANGED StateButLastOp
                  /\ lastOp'.renders = <<>>
                  /\ drawCalls' = <<>>
      ]_vars
C20_Witness ==
    /\ lastOp.name = "incrementProgress" /\ ~lastOp.flag /\ value = 100
    /\ lastOp.arg = 50 /\ lastOp.renders = <<>>

\* the number the decimal digits of a text form, 0 when it has none
RECURSIVE DigitsNumber(_)
DigitsNumber(t) ==
    IF t = <<>> THEN 0
    ELSE IF t[Len(t)] \in Digits
         THEN 10 * DigitsNumber(SubSeq(t, 1, Len(t) - 1))
              + DigitValue(t[Len(t)])
         ELSE DigitsNumber(SubSeq(t, 1, Len(t) - 1))

\* C19: after an input event with any text, the stored value is the number
\* formed by the text's decimal digits, clamped to [0, 100].
C19_InputStoresDigits ==
    lastOp.name \in {"input(app.js)", "input(part_000)"} =>
        value = (IF DigitsNumber(lastOp.arg) > 100 THEN 100
                 ELSE DigitsNumber(lastOp.arg))

\* the same for the listeners of src/app.js alone
C19_AppStoresDigits ==
    lastOp.name = "input(app.js)" =>
        value = (IF DigitsNumber(lastOp.arg) > 100 THEN 100
                 ELSE DigitsNumber(lastOp.arg))

TypeOK ==
    /\ value \in Int
    /\ animate \in BOOLEAN
    /\ hidden \in BOOLEAN
    /\ rotation \in Nat
    /\ animationFrame \in {NoFrame} \cup Handles
    /\ ctx \in {"2d", "null"}
    /\ pending \subseteq Handles
    /\ nextHandle \in Handles
====
